---- MODULE Spec2Model ----
(***************************************************************************)
(* Model of the interview workflow of Multi-Agent-Interviewer.             *)
(*                                                                         *)
(* The state is the InterviewState dictionary a driver holds between       *)
(* calls, the configured round maxima, and a record of the last call.      *)
(* run_step invokes the compiled LangGraph graph: the graph always starts  *)
(* at its entry point "technical", runs a node, asks that node's routing   *)
(* function for the next node, and stops at END.  process_answer mutates   *)
(* the dictionary it is given.                                             *)
(*                                                                         *)
(* A language-model call either returns a text or raises.  The graph works *)
(* on its own copy of the dictionary, so a run that raises leaves the      *)
(* scalar entries of the driver's dictionary as they were, while the       *)
(* conversation_history list object is shared and keeps what the nodes     *)
(* appended before the failure.                                            *)
(*                                                                         *)
(* Specifications: Spec and SpecLong make the two calls in any order;      *)
(* SpecDriver alternates them as an interview loop does; SpecTwin runs two *)
(* interviews side by side on the same calls; SpecParse and SpecPrompt     *)
(* apply EvaluationAgent._parse_evaluation and get_agent_prompt on their   *)
(* own to texts given as sequences of characters.                          *)
(***************************************************************************)
EXTENDS Integers, Sequences, FiniteSets, TLC

VARIABLES settings, state, call, twin, input, output, pc

vars == <<settings, state, call, twin, input, output, pc>>

\* twin is the dictionary of a second interview that is given the same calls
\* as state (SpecTwin only); input and output are the argument and the
\* result of a function applied on its own (SpecParse, SpecPrompt only); pc
\* is the position of a presentation layer in its loop (SpecUi only)
others == <<twin, input, output, pc>>

(* ------------------------------ bounds -------------------------------- *)

\* each configured round maximum is drawn from 0..MaxQuestions
MaxQuestions == 1
\* calls are explored while the transcript has at most MaxHistory entries
MaxHistory == 6
\* language-model calls made by one graph run
MaxCalls == 4
\* transcript bound of SpecLong
MaxLongHistory == 9
\* transcript bound of SpecTwin
MaxTwinHistory == 8
\* bounds of SpecAsk: the largest counter and the longest transcript an
\* agent is asked with
MaxAsked == 1
MaxTranscript == 6
\* bound of SpecSummary: the most question-answer pairs summarised
MaxPairs == 3
\* transcript bound of SpecShort
MaxShortHistory == 5
\* transcript bound of SpecUi
MaxUiHistory == 12
\* lines of a response that is parsed
MaxLines == 3

(* ------------------------------ values -------------------------------- *)

\* Python's None
None == "<None>"
\* a language-model call that raises
Fail == "<Fail>"
\* outcomes of a language-model call: a text ("" is an empty completion) or
\* an exception
Responses == <<"", "Q1", Fail>>
\* texts a candidate can submit
Answers == <<"A1", "A2">>
\* the outcomes and the answers of SpecLong
LongResponses == <<"Q1", Fail>>
LongAnswers == <<"A1">>
\* the outcomes and the answers of SpecDriver: the model always returns a
\* non-empty text
DriverResponses == <<"Q1">>
DriverAnswers == <<"A1", "A2", "A3">>
\* the graph's END marker
END == "__end__"

\* the Optional[Dict] evaluation: <<>> is None, <<d>> is the dictionary d
NoEvaluation == <<>>
\* Python truthiness of an Optional[str]
Truthy(x) == x # None /\ x # ""

\* mutant: the value the evaluation node assigns accepted as a round
AgentTypes_WithEvaluation == {"technical", "hr", "manager", "evaluation"}

\* the values QuestionAnswer.agent_type and Message.agent_type accept
AgentTypes == {"technical", "hr", "manager"}

Message(role, content, agent_type) ==
    [role |-> role, content |-> content, agent_type |-> agent_type]

QuestionAnswer(question, answer, agent_type) ==
    [question |-> question, answer |-> answer, agent_type |-> agent_type]

create_initial_state(candidate_name, job_role, experience_level, resume_text) ==
    [candidate_name |-> candidate_name,
     job_role |-> job_role,
     experience_level |-> experience_level,
     resume_text |-> resume_text,
     current_agent |-> "technical",
     technical_questions_asked |-> 0,
     hr_questions_asked |-> 0,
     manager_questions_asked |-> 0,
     conversation_history |-> <<>>,
     qa_pairs |-> <<>>,
     is_complete |-> FALSE,
     current_question |-> None,
     last_answer |-> None,
     evaluation |-> NoEvaluation]

(* ------------------------- text as characters ------------------------- *)

\* A text that is parsed is a sequence of characters, each a one-character
\* string.  Characters outside ASCII are named by their code point.
BULLET == "U+2022"
A_CIRC == "U+00E2"
EURO == "U+20AC"
CENT == "U+00A2"

LowerCase ==
    <<"a", "b", "c", "d", "e", "f", "g", "h", "i", "j", "k", "l", "m", "n",
      "o", "p", "q", "r", "s", "t", "u", "v", "w", "x", "y", "z">>
UpperCase ==
    <<"A", "B", "C", "D", "E", "F", "G", "H", "I", "J", "K", "L", "M", "N",
      "O", "P", "Q", "R", "S", "T", "U", "V", "W", "X", "Y", "Z">>
DigitChars == <<"0", "1", "2", "3", "4", "5", "6", "7", "8", "9">>

\* membership of a character in a string used as a character set
InChars(c, chars) == \E i \in 1..Len(chars) : chars[i] = c

\* the characters str.strip() removes
IsSpace(c) == c = " " \/ c = "\n" \/ c = "\t" \/ c = "\r"

\* what the pattern \d matches
IsDigit(c) == InChars(c, DigitChars)

DigitValue(c) == (CHOOSE i \in 1..Len(DigitChars) : DigitChars[i] = c) - 1

\* str.upper(), on the ASCII letters
upper_char(c) ==
    IF InChars(c, LowerCase)
    THEN UpperCase[CHOOSE i \in 1..Len(LowerCase) : LowerCase[i] = c]
    ELSE c

str_upper(s) == [i \in 1..Len(s) |-> upper_char(s[i])]

\* str.lstrip(chars)
RECURSIVE str_lstrip(_, _)
str_lstrip(s, chars) ==
    IF Len(s) > 0 /\ InChars(s[1], chars)
    THEN str_lstrip(Tail(s), chars)
    ELSE s

RECURSIVE lstrip_space(_)
lstrip_space(s) ==
    IF Len(s) > 0 /\ IsSpace(s[1]) THEN lstrip_space(Tail(s)) ELSE s

RECURSIVE rstrip_space(_)
rstrip_space(s) ==
    IF Len(s) > 0 /\ IsSpace(s[Len(s)])
    THEN rstrip_space(SubSeq(s, 1, Len(s) - 1))
    ELSE s

\* str.strip()
str_strip(s) == rstrip_space(lstrip_space(s))

\* str.split('\n'): cur is the piece being read
RECURSIVE split_lines(_, _)
split_lines(s, cur) ==
    IF Len(s) = 0
    THEN <<cur>>
    ELSE IF s[1] = "\n"
    THEN <<cur>> \o split_lines(Tail(s), <<>>)
    ELSE split_lines(Tail(s), Append(cur, s[1]))

str_split(s) == split_lines(s, <<>>)

\* sub in s
contains(s, sub) ==
    \E i \in 0..(Len(s) - Len(sub)) : SubSeq(s, i + 1, i + Len(sub)) = sub

RECURSIVE take_digits(_)
take_digits(s) ==
    IF Len(s) > 0 /\ IsDigit(s[1])
    THEN <<s[1]>> \o take_digits(Tail(s))
    ELSE <<>>

\* re.search(r'(\d+)', line).group(1): the first maximal run of digits of
\* the line, <<>> when the search finds no match
re_search(line) ==
    IF \E i \in 1..Len(line) : IsDigit(line[i])
    THEN LET first == CHOOSE i \in 1..Len(line) :
                         /\ IsDigit(line[i])
                         /\ \A j \in 1..(i - 1) : ~IsDigit(line[j])
         IN  take_digits(SubSeq(line, first, Len(line)))
    ELSE <<>>

\* int() of a run of digits
RECURSIVE to_int(_)
to_int(ds) ==
    IF Len(ds) = 0
    THEN 0
    ELSE 10 * to_int(SubSeq(ds, 1, Len(ds) - 1)) + DigitValue(ds[Len(ds)])

min(a, b) == IF a <= b THEN a ELSE b
max(a, b) == IF a >= b THEN a ELSE b

(* -------------------------- EvaluationAgent --------------------------- *)

\* the texts _parse_evaluation looks for in the upper-cased line
kwScore == <<"S", "C", "O", "R", "E", ":">>
kwOverallScore ==
    <<"O", "V", "E", "R", "A", "L", "L", " ", "S", "C", "O", "R", "E", ":">>
kwStrengths == <<"S", "T", "R", "E", "N", "G", "T", "H", "S", ":">>
kwWeaknesses == <<"W", "E", "A", "K", "N", "E", "S", "S", "E", "S", ":">>
kwAreasForImprovement ==
    <<"A", "R", "E", "A", "S", " ", "F", "O", "R", " ", "I", "M", "P", "R",
      "O", "V", "E", "M", "E", "N", "T", ":">>
kwSuggestions ==
    <<"S", "U", "G", "G", "E", "S", "T", "I", "O", "N", "S", ":">>
kwRecommendations ==
    <<"R", "E", "C", "O", "M", "M", "E", "N", "D", "A", "T", "I", "O", "N",
      "S", ":">>
kwOverallFeedback ==
    <<"O", "V", "E", "R", "A", "L", "L", " ", "F", "E", "E", "D", "B", "A",
      "C", "K", ":">>
kwSummary == <<"S", "U", "M", "M", "A", "R", "Y", ":">>
\* the argument of lstrip at line 141, as the source file has it
BulletChars == <<A_CIRC, EURO, CENT, "-", "*">>

\* the score bounds of line 124
MinScore == 0
MaxScore == 100

\* mutant: the upper clamp left out
clamp_score_NoMin(n) == max(MinScore, n)

clamp_score(n) == min(MaxScore, max(MinScore, n))

\* mutant: the line stripped of whitespace only
clean_line_NoLstrip(line) == str_strip(line)

clean_line(line) == str_strip(str_lstrip(line, BulletChars))

DefaultEvaluation ==
    [score |-> 0, strengths |-> <<>>, weaknesses |-> <<>>,
     suggestions |-> <<>>, overall_feedback |-> <<>>]

\* the body of the loop over the lines
RECURSIVE parse_lines(_, _, _)
parse_lines(lines, evaluation, current_section) ==
    IF Len(lines) = 0
    THEN evaluation
    ELSE
      LET line == str_strip(Head(lines))
          up == str_upper(line)
          rest == Tail(lines)
      IN  IF contains(up, kwScore) \/ contains(up, kwOverallScore)
          THEN LET score_match == re_search(line)
               IN  IF Len(score_match) > 0
                   THEN parse_lines(rest,
                            [evaluation EXCEPT
                                !.score = clamp_score(to_int(score_match))],
                            current_section)
                   ELSE parse_lines(rest, evaluation, current_section)
          ELSE IF contains(up, kwStrengths)
          THEN parse_lines(rest, evaluation, "strengths")
          ELSE IF contains(up, kwWeaknesses)
                    \/ contains(up, kwAreasForImprovement)
          THEN parse_lines(rest, evaluation, "weaknesses")
          ELSE IF contains(up, kwSuggestions) \/ contains(up, kwRecommendations)
          THEN parse_lines(rest, evaluation, "suggestions")
          ELSE IF contains(up, kwOverallFeedback) \/ contains(up, kwSummary)
          THEN parse_lines(rest, evaluation, "overall_feedback")
          ELSE IF Len(line) > 0 /\ current_section # None
          THEN LET cleaned_line == clean_line(line)
               IN  IF Len(cleaned_line) = 0
                   THEN parse_lines(rest, evaluation, current_section)
                   ELSE IF current_section = "overall_feedback"
                   THEN parse_lines(rest,
                            [evaluation EXCEPT
                                !.overall_feedback = @ \o cleaned_line \o <<" ">>],
                            current_section)
                   ELSE parse_lines(rest,
                            [evaluation EXCEPT
                                ![current_section] = Append(@, cleaned_line)],
                            current_section)
          ELSE parse_lines(rest, evaluation, current_section)

\* mutant: the stripped text stored as the fallback feedback
apply_fallback_Stripped(evaluation, evaluation_text) ==
    IF Len(evaluation.strengths) = 0 /\ Len(evaluation.weaknesses) = 0
    THEN [evaluation EXCEPT !.overall_feedback = str_strip(evaluation_text)]
    ELSE evaluation

\* lines 148-150: without strengths and weaknesses the raw text is the
\* feedback
apply_fallback(evaluation, evaluation_text) ==
    IF Len(evaluation.strengths) = 0 /\ Len(evaluation.weaknesses) = 0
    THEN [evaluation EXCEPT !.overall_feedback = evaluation_text]
    ELSE evaluation

_parse_evaluation(evaluation_text) ==
    apply_fallback(parse_lines(str_split(str_strip(evaluation_text)),
                               DefaultEvaluation, None),
                   evaluation_text)

(* ------------------------------ agents -------------------------------- *)

\* EvaluationAgent._parse_evaluation on a response without SCORE: or section
\* header lines: the defaults, with the raw text as overall_feedback
generate_evaluation(st, text) ==
    [score |-> 0, strengths |-> <<>>, weaknesses |-> <<>>,
     suggestions |-> <<>>, overall_feedback |-> text]

(* ------------------------------- nodes -------------------------------- *)

\* mutant: the node counts the question it asks
_technical_node_Counts(st, question) ==
    [st EXCEPT !.current_question = question,
               !.technical_questions_asked = @ + 1,
               !.conversation_history =
                   Append(@, Message("agent", question, "technical"))]

_technical_node(st, question) ==
    [st EXCEPT !.current_question = question,
               !.conversation_history =
                   Append(@, Message("agent", question, "technical"))]

\* mutant: the transcript assigned a new list instead of appended to
_hr_node_NewList(st, question) ==
    [st EXCEPT !.current_question = question,
               !.current_agent = "hr",
               !.conversation_history =
                   <<Message("agent", question, "hr")>>]

_hr_node(st, question) ==
    [st EXCEPT !.current_question = question,
               !.current_agent = "hr",
               !.conversation_history =
                   Append(@, Message("agent", question, "hr"))]

\* mutant: the node body copied from another round with its tag left unedited
_manager_node_AsTechnical(st, question) ==
    [st EXCEPT !.current_question = question,
               !.current_agent = "technical",
               !.conversation_history =
                   Append(@, Message("agent", question, "technical"))]

_manager_node(st, question) ==
    [st EXCEPT !.current_question = question,
               !.current_agent = "manager",
               !.conversation_history =
                   Append(@, Message("agent", question, "manager"))]

\* mutant: the interview marked complete with the evaluation left unstored
_evaluation_node_NoStore(st, text) ==
    [st EXCEPT !.is_complete = TRUE,
               !.current_agent = "evaluation"]

_evaluation_node(st, text) ==
    [st EXCEPT !.evaluation = <<generate_evaluation(st, text)>>,
               !.is_complete = TRUE,
               !.current_agent = "evaluation"]

(* ------------------------------ routing ------------------------------- *)

\* mutant: "end" and "continue" the wrong way round
_route_from_technical_Swapped(st) ==
    IF st.technical_questions_asked >= settings.MAX_TECHNICAL_QUESTIONS
    THEN "hr"
    ELSE IF Truthy(st.current_question) THEN "continue" ELSE "end"

\* mutant: > where the code has >=
_route_from_technical_Gt(st) ==
    IF st.technical_questions_asked > settings.MAX_TECHNICAL_QUESTIONS
    THEN "hr"
    ELSE IF Truthy(st.current_question) THEN "end" ELSE "continue"

_route_from_technical(st) ==
    IF st.technical_questions_asked >= settings.MAX_TECHNICAL_QUESTIONS
    THEN "hr"
    ELSE IF Truthy(st.current_question) THEN "end" ELSE "continue"

\* mutant: > where the code has >=
_route_from_hr_Gt(st) ==
    IF st.hr_questions_asked > settings.MAX_HR_QUESTIONS
    THEN "manager"
    ELSE IF Truthy(st.current_question) THEN "end" ELSE "continue"

_route_from_hr(st) ==
    IF st.hr_questions_asked >= settings.MAX_HR_QUESTIONS
    THEN "manager"
    ELSE IF Truthy(st.current_question) THEN "end" ELSE "continue"

\* mutant: the route also taken on what the candidate last said
_route_from_manager_OnAnswer(st) ==
    IF \/ st.manager_questions_asked >= settings.MAX_MANAGER_QUESTIONS
       \/ st.last_answer = "A2"
    THEN "evaluation"
    ELSE IF Truthy(st.current_question) THEN "end" ELSE "continue"

_route_from_manager(st) ==
    IF st.manager_questions_asked >= settings.MAX_MANAGER_QUESTIONS
    THEN "evaluation"
    ELSE IF Truthy(st.current_question) THEN "end" ELSE "continue"

\* mutant: the "hr" route of the technical node wired to the manager node
_create_graph_SkipHr(node, st) ==
    CASE node = "technical" ->
            LET r == _route_from_technical(st)
            IN  IF r = "hr" THEN "manager"
                ELSE IF r = "continue" THEN "technical" ELSE END
      [] node = "hr" ->
            LET r == _route_from_hr(st)
            IN  IF r = "manager" THEN "manager"
                ELSE IF r = "continue" THEN "hr" ELSE END
      [] node = "manager" ->
            LET r == _route_from_manager(st)
            IN  IF r = "evaluation" THEN "evaluation"
                ELSE IF r = "continue" THEN "manager" ELSE END
      [] node = "evaluation" -> END

\* the edges of the compiled graph: the node that follows `node` in state st
_create_graph(node, st) ==
    CASE node = "technical" ->
            LET r == _route_from_technical(st)
            IN  IF r = "hr" THEN "hr"
                ELSE IF r = "continue" THEN "technical" ELSE END
      [] node = "hr" ->
            LET r == _route_from_hr(st)
            IN  IF r = "manager" THEN "manager"
                ELSE IF r = "continue" THEN "hr" ELSE END
      [] node = "manager" ->
            LET r == _route_from_manager(st)
            IN  IF r = "evaluation" THEN "evaluation"
                ELSE IF r = "continue" THEN "manager" ELSE END
      [] node = "evaluation" -> END

\* the node functions registered with add_node
RunNode(node, st, text) ==
    CASE node = "technical" -> _technical_node(st, text)
      [] node = "hr" -> _hr_node(st, text)
      [] node = "manager" -> _manager_node(st, text)
      [] node = "evaluation" -> _evaluation_node(st, text)

\* graph.invoke from `node` on, as the set of its possible results: each node
\* makes one language-model call, whose outcome is any element of the
\* sequence `llm` (Fail: the call raises).  A result is "done" when the run reached END and
\* "raised" when a call raised; nodes lists the nodes that were run.  Runs
\* that need more than `budget` calls are not followed.
RECURSIVE invoke(_, _, _, _, _)
invoke(node, st, nodes, budget, llm) ==
    IF budget = 0
    THEN {}
    ELSE UNION {IF llm[i] = Fail
                THEN {[status |-> "raised", state |-> st,
                       nodes |-> Append(nodes, node)]}
                ELSE LET st2 == RunNode(node, st, llm[i])
                         next == _create_graph(node, st2)
                     IN  IF next = END
                         THEN {[status |-> "done", state |-> st2,
                                nodes |-> Append(nodes, node)]}
                         ELSE invoke(next, st2, Append(nodes, node),
                                     budget - 1, llm)
                : i \in 1..Len(llm)}

\* run_step: the graph run from the entry point.  A run that raises leaves
\* the caller's dictionary with its own scalar entries and the shared
\* conversation_history list as the nodes left it.
run_step(st, llm) ==
    {[status |-> res.status,
      nodes |-> res.nodes,
      state |-> IF res.status = "done"
                THEN res.state
                ELSE [st EXCEPT !.conversation_history =
                                    res.state.conversation_history]]
     : res \in invoke("technical", st, <<>>, MaxCalls, llm)}

(* --------------------------- process_answer --------------------------- *)

\* mutant: the manager branch of the counter update left out
increment_counter_NoManager(st) ==
    IF st.current_agent = "technical"
    THEN [st EXCEPT !.technical_questions_asked = @ + 1]
    ELSE IF st.current_agent = "hr"
    THEN [st EXCEPT !.hr_questions_asked = @ + 1]
    ELSE st

\* the counter of the round named by current_agent goes up by one
increment_counter(st) ==
    IF st.current_agent = "technical"
    THEN [st EXCEPT !.technical_questions_asked = @ + 1]
    ELSE IF st.current_agent = "hr"
    THEN [st EXCEPT !.hr_questions_asked = @ + 1]
    ELSE IF st.current_agent = "manager"
    THEN [st EXCEPT !.manager_questions_asked = @ + 1]
    ELSE st

\* mutant: the question-answer pair recorded without the test of
\* current_question
process_answer_NoGuard(st, answer) ==
    LET st1 == [st EXCEPT !.conversation_history =
                              Append(@, Message("user", answer, None))]
    IN  IF st1.current_agent \notin AgentTypes
        THEN [raised |-> TRUE, state |-> st1]
        ELSE LET st2 == [st1 EXCEPT !.qa_pairs =
                            Append(@, QuestionAnswer(st1.current_question,
                                                     answer,
                                                     st1.current_agent))]
                 st3 == increment_counter(st2)
             IN  [raised |-> FALSE,
                  state |-> [st3 EXCEPT !.current_question = None,
                                        !.last_answer = answer]]

\* raised: QuestionAnswer(...) rejected current_agent with a ValidationError,
\* after the answer was appended to the shared conversation_history
process_answer(st, answer) ==
    LET st1 == [st EXCEPT !.conversation_history =
                              Append(@, Message("user", answer, None))]
    IN  IF Truthy(st1.current_question)
        THEN IF st1.current_agent \notin AgentTypes
             THEN [raised |-> TRUE, state |-> st1]
             ELSE LET st2 == [st1 EXCEPT !.qa_pairs =
                                 Append(@, QuestionAnswer(st1.current_question,
                                                          answer,
                                                          st1.current_agent))]
                      st3 == increment_counter(st2)
                  IN  [raised |-> FALSE,
                       state |-> [st3 EXCEPT !.current_question = None,
                                             !.last_answer = answer]]
        ELSE [raised |-> FALSE,
              state |-> [st1 EXCEPT !.current_question = None,
                                    !.last_answer = answer]]

(* --------------------------- specification ---------------------------- *)

Init ==
    /\ settings \in [MAX_TECHNICAL_QUESTIONS : 0..MaxQuestions,
                     MAX_HR_QUESTIONS : 0..MaxQuestions,
                     MAX_MANAGER_QUESTIONS : 0..MaxQuestions]
    /\ state = create_initial_state("Ann", "Engineer", "Senior", None)
    /\ call = [op |-> "init", raised |-> FALSE, nodes |-> <<>>]
    /\ twin = state
    /\ input = None
    /\ output = None
    /\ pc = "init"

\* a driver calls workflow.run_step(state); the language model answers each
\* call with an element of llm
StepWith(llm, maxHistory) ==
    /\ \E res \in run_step(state, llm) :
          /\ Len(res.state.conversation_history) <= maxHistory
          /\ state' = res.state
          /\ call' = [op |-> "step", raised |-> res.status = "raised",
                      nodes |-> res.nodes]
    /\ UNCHANGED <<settings, others>>

\* a driver calls workflow.process_answer(state, answer)
AnswerWith(answers, maxHistory) ==
    /\ Len(state.conversation_history) < maxHistory
    /\ \E i \in 1..Len(answers) :
          LET res == process_answer(state, answers[i])
          IN  /\ state' = res.state
              /\ call' = [op |-> "answer", raised |-> res.raised,
                          nodes |-> <<>>]
    /\ UNCHANGED <<settings, others>>

Step == StepWith(Responses, MaxHistory)

Answer == AnswerWith(Answers, MaxHistory)

Next == Step \/ Answer

Spec == Init /\ [][Next]_vars

\* The same calls on a longer transcript, with one question text and one
\* answer text: interviews that go through every round to the evaluation.
StepLong == StepWith(LongResponses, MaxLongHistory)

AnswerLong == AnswerWith(LongAnswers, MaxLongHistory)

NextLong == StepLong \/ AnswerLong

SpecLong == Init /\ [][NextLong]_vars

\* The same calls with empty completions among the model's outcomes, on a
\* short transcript.
StepShort == StepWith(Responses, MaxShortHistory)

AnswerShort == AnswerWith(LongAnswers, MaxShortHistory)

NextShort == StepShort \/ AnswerShort

SpecShort == Init /\ [][NextShort]_vars

\* A driver that alternates the two calls as main.py's run_interview loop
\* does: run_step while no question is pending, process_answer for the
\* question the step left pending, and nothing more once is_complete.  The
\* loop keeps going as long as it can, hence the fairness condition.
DriverStep ==
    /\ ~state.is_complete
    /\ ~Truthy(state.current_question)
    /\ \E res \in run_step(state, DriverResponses) :
          /\ state' = res.state
          /\ call' = [op |-> "step", raised |-> res.status = "raised",
                      nodes |-> res.nodes]
    /\ UNCHANGED <<settings, others>>

DriverAnswer ==
    /\ ~state.is_complete
    /\ Truthy(state.current_question)
    /\ \E i \in 1..Len(DriverAnswers) :
          LET res == process_answer(state, DriverAnswers[i])
          IN  /\ state' = res.state
              /\ call' = [op |-> "answer", raised |-> res.raised,
                          nodes |-> <<>>]
    /\ UNCHANGED <<settings, others>>

NextDriver == DriverStep \/ DriverAnswer

SpecDriver == Init /\ [][NextDriver]_vars /\ WF_vars(NextDriver)

\* Two interviews with the same maxima that are given the same calls and
\* the same model outcomes (every model call of one run_step has the same
\* outcome in both).  The first is always answered with the text of
\* LongAnswers, the second with any text of Answers.
TwinStep ==
    /\ \E i \in 1..Len(LongResponses) :
          \E res \in run_step(state, <<LongResponses[i]>>) :
             \E res2 \in run_step(twin, <<LongResponses[i]>>) :
                /\ Len(res.state.conversation_history) <= MaxTwinHistory
                /\ Len(res2.state.conversation_history) <= MaxTwinHistory
                /\ state' = res.state
                /\ twin' = res2.state
                /\ call' = [op |-> "step", raised |-> res.status = "raised",
                            nodes |-> res.nodes]
    /\ UNCHANGED <<settings, input, output, pc>>

TwinAnswer ==
    /\ Len(state.conversation_history) < MaxTwinHistory
    /\ Len(twin.conversation_history) < MaxTwinHistory
    /\ \E i \in 1..Len(LongAnswers) :
          \E j \in 1..Len(Answers) :
             LET res == process_answer(state, LongAnswers[i])
                 res2 == process_answer(twin, Answers[j])
             IN  /\ state' = res.state
                 /\ twin' = res2.state
                 /\ call' = [op |-> "answer", raised |-> res.raised,
                             nodes |-> <<>>]
    /\ UNCHANGED <<settings, input, output, pc>>

NextTwin == TwinStep \/ TwinAnswer

SpecTwin == Init /\ [][NextTwin]_vars

\* EvaluationAgent._parse_evaluation applied on its own to the evaluation
\* responses of at most MaxLines lines, each line one of ResponseLines:
\* score lines (in range, above the range, with a minus sign, without a
\* number), section headers, lines with each bullet marker, and a line of
\* plain text.
ResponseLines ==
    <<<<"S", "C", "O", "R", "E", ":", " ", "8", "5">>,
      <<"S", "c", "o", "r", "e", ":", " ", "1", "5", "0", "/", "1", "0", "0">>,
      <<"S", "C", "O", "R", "E", ":", " ", "-", "5">>,
      <<"S", "T", "R", "E", "N", "G", "T", "H", "S", ":">>,
      <<"-", " ", "g", "o", "o", "d", " ">>,
      <<"*", " ", "o", "k">>,
      <<BULLET, " ", "t", "o", "p">>,
      <<"W", "E", "A", "K", "N", "E", "S", "S", "E", "S", ":">>,
      <<" ", "f", "i", "n", "e">>,
      <<"S", "C", "O", "R", "E", ":", " ", "n", "/", "a">>,
      <<"S", "U", "M", "M", "A", "R", "Y", ":">>>>

RECURSIVE join_lines(_)
join_lines(ls) ==
    IF Len(ls) = 0 THEN <<>>
    ELSE IF Len(ls) = 1 THEN ResponseLines[ls[1]]
    ELSE ResponseLines[ls[1]] \o <<"\n">> \o join_lines(Tail(ls))

\* settings and the dictionaries play no part in the specifications of single
\* functions
InitIdle ==
    /\ settings = [MAX_TECHNICAL_QUESTIONS |-> MaxQuestions,
                   MAX_HR_QUESTIONS |-> MaxQuestions,
                   MAX_MANAGER_QUESTIONS |-> MaxQuestions]
    /\ state = create_initial_state("Ann", "Engineer", "Senior", None)
    /\ call = [op |-> "init", raised |-> FALSE, nodes |-> <<>>]
    /\ twin = state
    /\ pc = "init"

\* input is the evaluation_text; output is <<>> before the call and <<d>>
\* once _parse_evaluation has returned the dictionary d
InitParse ==
    /\ InitIdle
    /\ \E n \in 0..MaxLines :
          \E ls \in [1..n -> 1..Len(ResponseLines)] : input = join_lines(ls)
    /\ output = <<>>

Parse ==
    /\ output = <<>>
    /\ output' = <<_parse_evaluation(input)>>
    /\ UNCHANGED <<settings, state, call, twin, input, pc>>

NextParse == Parse

SpecParse == InitParse /\ [][NextParse]_vars

(* ------------------------------ prompts ------------------------------- *)

\* A prompt is a sequence whose elements are characters of the resume and
\* the fixed texts of templates.py, each fixed text one element.
ResumeHeader == "\n\nCANDIDATE'S RESUME:\n"
ResumeContinues == "...(resume continues)"
ResumeTrailer == "\n\nUse this resume information to ask more personalized and relevant questions based on the candidate's actual experience and skills."

\* the number of resume characters a prompt takes
ResumeLimit == 2000

\* the table `prompts` of get_agent_prompt
prompts(agent_type, is_first_question) ==
    CASE agent_type = "technical" ->
            IF is_first_question THEN "TECHNICAL_AGENT_FIRST_QUESTION_PROMPT"
            ELSE "TECHNICAL_AGENT_SYSTEM_PROMPT"
      [] agent_type = "hr" ->
            IF is_first_question THEN "HR_AGENT_FIRST_QUESTION_PROMPT"
            ELSE "HR_AGENT_SYSTEM_PROMPT"
      [] agent_type = "manager" ->
            IF is_first_question THEN "MANAGER_AGENT_FIRST_QUESTION_PROMPT"
            ELSE "MANAGER_AGENT_SYSTEM_PROMPT"

\* mutant: the whole resume taken
truncated_resume_All(resume_text) == resume_text

\* resume_text[:2000]
truncated_resume(resume_text) ==
    SubSeq(resume_text, 1, min(ResumeLimit, Len(resume_text)))

\* the f-string of line 195
resume_context(resume_text) ==
    <<ResumeHeader>> \o truncated_resume(resume_text) \o <<"\n">>
        \o (IF Len(resume_text) > ResumeLimit
            THEN <<ResumeContinues>> ELSE <<>>)
        \o <<ResumeTrailer>>

\* the templates that hold the placeholder {conversation_history}
\* (templates.py:27, 61, 95); the first-question templates have none
HistoryTemplates ==
    <<"TECHNICAL_AGENT_SYSTEM_PROMPT", "HR_AGENT_SYSTEM_PROMPT",
      "MANAGER_AGENT_SYSTEM_PROMPT">>

\* prompt_template.format(...): the template's fixed text is one element,
\* the template's name, followed by the conversation history where the
\* template has a placeholder for it; str.format ignores an argument the
\* template does not name
format(prompt_template, conversation_history) ==
    <<prompt_template>>
        \o (IF \E i \in 1..Len(HistoryTemplates) :
                   HistoryTemplates[i] = prompt_template
            THEN conversation_history
            ELSE <<>>)

\* resume_text is <<>> for None and <<text>> for a str
get_agent_prompt(agent_type, conversation_history, is_first_question, resume_text) ==
    format(prompts(agent_type, is_first_question), conversation_history)
        \o (IF Len(resume_text) = 1 /\ Len(resume_text[1]) > 0
            THEN resume_context(resume_text[1])
            ELSE <<>>)

\* get_agent_prompt applied on its own: for each persona and each of its two
\* templates, without a resume and with resumes of the lengths of
\* ResumeLengths, whose characters are all different
ResumeLengths == <<0, 1, 2, 1000, 1999, 2000, 2001, 2002, 3000, 5000>>

PersonaTypes == <<"technical", "hr", "manager">>

ResumeOfLength(n) == [i \in 1..n |-> ToString(i)]

InitPrompt ==
    /\ InitIdle
    /\ \E a \in 1..Len(PersonaTypes) :
          \E first \in BOOLEAN :
             \E k \in 0..Len(ResumeLengths) :
                input = [agent_type |-> PersonaTypes[a],
                         conversation_history |->
                            <<"No previous conversation.">>,
                         is_first_question |-> first,
                         resume_text |->
                            IF k = 0 THEN <<>>
                            ELSE <<ResumeOfLength(ResumeLengths[k])>>]
    /\ output = <<>>

Prompt ==
    /\ output = <<>>
    /\ output' = <<get_agent_prompt(input.agent_type,
                                    input.conversation_history,
                                    input.is_first_question,
                                    input.resume_text)>>
    /\ UNCHANGED <<settings, state, call, twin, input, pc>>

NextPrompt == Prompt

SpecPrompt == InitPrompt /\ [][NextPrompt]_vars

(* --------------------------- persona agents --------------------------- *)

\* the number of transcript entries a prompt shows
HistoryWindow == 5

\* "\n".join(parts) for parts that are sequences of text pieces
RECURSIVE join(_)
join(parts) ==
    IF Len(parts) = 0 THEN <<>>
    ELSE IF Len(parts) = 1 THEN parts[1]
    ELSE parts[1] \o <<"\n">> \o join(Tail(parts))

\* mutant: the first entries taken instead of the last
_build_conversation_history_Oldest(messages) ==
    IF Len(messages) = 0
    THEN <<"No previous conversation.">>
    ELSE LET recent_messages ==
                 SubSeq(messages, 1, min(HistoryWindow, Len(messages)))
         IN  join([i \in 1..Len(recent_messages) |->
                     <<IF recent_messages[i].role = "agent"
                       THEN "Interviewer" ELSE "Candidate",
                       ": ", recent_messages[i].content>>])

\* HRAgent._build_conversation_history; a text is the sequence of its pieces,
\* f"{role}: {msg.content}" the three pieces role, ": ", content
_build_conversation_history(messages) ==
    IF Len(messages) = 0
    THEN <<"No previous conversation.">>
    ELSE LET recent_messages ==
                 SubSeq(messages,
                        max(1, Len(messages) - HistoryWindow + 1),
                        Len(messages))
         IN  join([i \in 1..Len(recent_messages) |->
                     <<IF recent_messages[i].role = "agent"
                       THEN "Interviewer" ELSE "Candidate",
                       ": ", recent_messages[i].content>>])

\* state.get("resume_text") as get_agent_prompt's argument
resume_of(st) == IF st.resume_text = None THEN <<>> ELSE <<st.resume_text>>

\* mutant: the number of the question compared with 0
HRAgent_ask_question_FromZero(st) ==
    LET question_number == st.hr_questions_asked + 1
        is_first == question_number = 0
    IN  get_agent_prompt("hr",
                         _build_conversation_history(st.conversation_history),
                         is_first, resume_of(st))

\* HRAgent.ask_question up to the call of generate_question: the prompt
\* given to the model
HRAgent_ask_question(st) ==
    LET question_number == st.hr_questions_asked + 1
        is_first == question_number = 1
    IN  get_agent_prompt("hr",
                         _build_conversation_history(st.conversation_history),
                         is_first, resume_of(st))

\* TechnicalAgent.ask_question, as the persona agent is described: the first
\* question template when the round's counter is 0
TechnicalAgent_ask_question(st) ==
    get_agent_prompt("technical",
                     _build_conversation_history(st.conversation_history),
                     st.technical_questions_asked = 0, resume_of(st))

\* ManagerAgent.ask_question, as the persona agent is described
ManagerAgent_ask_question(st) ==
    get_agent_prompt("manager",
                     _build_conversation_history(st.conversation_history),
                     st.manager_questions_asked = 0, resume_of(st))

\* the agent a node of the workflow asks
ask_question(agent_type, st) ==
    CASE agent_type = "technical" -> TechnicalAgent_ask_question(st)
      [] agent_type = "hr" -> HRAgent_ask_question(st)
      [] agent_type = "manager" -> ManagerAgent_ask_question(st)

\* the entries the transcripts of SpecAsk are made of
TranscriptEntries ==
    <<Message("agent", "Q1", "hr"), Message("user", "A1", None)>>

\* An agent asked on its own: for each persona, each combination of the three
\* counters and each transcript of up to MaxTranscript entries.
InitAsk ==
    /\ InitIdle
    /\ \E a \in 1..Len(PersonaTypes) :
          \E t, h, m \in 0..MaxAsked :
             \E n \in 0..MaxTranscript :
                \E es \in [1..n -> 1..Len(TranscriptEntries)] :
                   input =
                     [agent_type |-> PersonaTypes[a],
                      state |->
                        [state EXCEPT
                           !.technical_questions_asked = t,
                           !.hr_questions_asked = h,
                           !.manager_questions_asked = m,
                           !.conversation_history =
                               [i \in 1..n |-> TranscriptEntries[es[i]]]]]
    /\ output = <<>>

Ask ==
    /\ output = <<>>
    /\ output' = <<ask_question(input.agent_type, input.state)>>
    /\ UNCHANGED <<settings, state, call, twin, input, pc>>

NextAsk == Ask

SpecAsk == InitAsk /\ [][NextAsk]_vars

(* ------------------------- interview summary ------------------------- *)

\* the two entries of summary_parts for the i-th pair of a round:
\* f"\nQ{i}: {qa.question}" and f"A{i}: {qa.answer or 'No answer provided'}\n",
\* each a sequence of its pieces
qa_parts(qa, i) ==
    << <<"\n", "Q", ToString(i), ": ", qa.question>>,
       <<"A", ToString(i), ": ",
         IF Truthy(qa.answer) THEN qa.answer ELSE "No answer provided",
         "\n">> >>

\* the entries for the pairs of one round, numbered from 1
RECURSIVE round_parts(_, _)
round_parts(round_qa, i) ==
    IF i > Len(round_qa)
    THEN <<>>
    ELSE qa_parts(round_qa[i], i) \o round_parts(round_qa, i + 1)

\* [qa for qa in qa_pairs if qa.agent_type == agent_type]
qa_of(qa_pairs, agent_type) ==
    SelectSeq(qa_pairs, LAMBDA qa : qa.agent_type = agent_type)

\* mutant: the HR round summarised before the technical round
_build_interview_summary_HrFirst(st) ==
    LET technical_qa == qa_of(st.qa_pairs, "technical")
        hr_qa == qa_of(st.qa_pairs, "hr")
        manager_qa == qa_of(st.qa_pairs, "manager")
    IN  IF Len(st.qa_pairs) = 0
        THEN <<"No interview data available.">>
        ELSE join(
               (IF Len(hr_qa) > 0
                THEN <<<<"\n", "=== HR ROUND ===">>>> \o round_parts(hr_qa, 1)
                ELSE <<>>)
               \o (IF Len(technical_qa) > 0
                   THEN <<<<"=== TECHNICAL ROUND ===">>>>
                          \o round_parts(technical_qa, 1)
                   ELSE <<>>)
               \o (IF Len(manager_qa) > 0
                   THEN <<<<"\n", "=== MANAGERIAL ROUND ===">>>>
                          \o round_parts(manager_qa, 1)
                   ELSE <<>>))

\* EvaluationAgent._build_interview_summary: summary_parts joined by "\n"
_build_interview_summary(st) ==
    LET technical_qa == qa_of(st.qa_pairs, "technical")
        hr_qa == qa_of(st.qa_pairs, "hr")
        manager_qa == qa_of(st.qa_pairs, "manager")
    IN  IF Len(st.qa_pairs) = 0
        THEN <<"No interview data available.">>
        ELSE join(
               (IF Len(technical_qa) > 0
                THEN <<<<"=== TECHNICAL ROUND ===">>>>
                       \o round_parts(technical_qa, 1)
                ELSE <<>>)
               \o (IF Len(hr_qa) > 0
                   THEN <<<<"\n", "=== HR ROUND ===">>>> \o round_parts(hr_qa, 1)
                   ELSE <<>>)
               \o (IF Len(manager_qa) > 0
                   THEN <<<<"\n", "=== MANAGERIAL ROUND ===">>>>
                          \o round_parts(manager_qa, 1)
                   ELSE <<>>))

\* the prompt generate_evaluation gives to the model: the template's fixed
\* text is one element, followed by the interview summary
evaluation_prompt(st) ==
    <<"EVALUATION_AGENT_SYSTEM_PROMPT">> \o _build_interview_summary(st)

\* the pairs the lists of SpecSummary are made of: the three rounds, two
\* questions, an answer, an empty answer and no answer
SummaryPairs ==
    <<QuestionAnswer("Q1", "A1", "technical"), QuestionAnswer("Q2", "", "technical"),
      QuestionAnswer("Q1", "A1", "hr"), QuestionAnswer("Q2", "A1", "hr"),
      QuestionAnswer("Q1", "A1", "manager"),
      QuestionAnswer("Q2", None, "manager")>>

\* The summary built on its own, for every list of up to MaxPairs pairs in
\* any order of the rounds.
InitSummary ==
    /\ InitIdle
    /\ \E n \in 0..MaxPairs :
          \E ps \in [1..n -> 1..Len(SummaryPairs)] :
             input = [state EXCEPT
                        !.qa_pairs = [i \in 1..n |-> SummaryPairs[ps[i]]]]
    /\ output = <<>>

Summarise ==
    /\ output = <<>>
    /\ output' = <<evaluation_prompt(input)>>
    /\ UNCHANGED <<settings, state, call, twin, input, pc>>

NextSummary == Summarise

SpecSummary == InitSummary /\ [][NextSummary]_vars

(* ------------------------- presentation layers ------------------------ *)

\* what a candidate can type, as characters: nothing, blanks only, and a
\* text with blanks around it
TypedTexts ==
    <<<<>>,
      <<" ", "\t">>,
      <<" ", "A", "1", " ">>>>

\* The record of what a presentation layer last did: answered and stepped
\* hold the dictionary process_answer and run_step were called with, passed
\* the text given to process_answer (each <<>> when no such call was made),
\* branch the branch of app.py:758-771 that issued the run_step.
UiCall(op, raised, nodes, answered, passed, stepped, branch) ==
    [op |-> op, raised |-> raised, nodes |-> nodes, answered |-> answered,
     passed |-> passed, stepped |-> stepped, branch |-> branch]

\* mutant: the text tested without being stripped
has_text_Unstripped(answer) == Len(answer) > 0

\* the test `if answer.strip():` of app.py:749
has_text(answer) == Len(str_strip(answer)) > 0

\* mutant: the test looks at the technical counter only
AllRoundsDone_TechnicalOnly(st) ==
    st.technical_questions_asked >= settings.MAX_TECHNICAL_QUESTIONS

AllRoundsDone(st) ==
    /\ st.technical_questions_asked >= settings.MAX_TECHNICAL_QUESTIONS
    /\ st.hr_questions_asked >= settings.MAX_HR_QUESTIONS
    /\ st.manager_questions_asked >= settings.MAX_MANAGER_QUESTIONS

\* main.py, run_interview: the loop test with is_complete false, and the
\* body up to the display of the question.  An exception ends the program
\* in the handler of line 192.
CliStep ==
    /\ pc = "cli_loop"
    /\ ~state.is_complete
    /\ LET st0 == [state EXCEPT !.last_answer = None]
       IN  \E res \in run_step(st0, Responses) :
              /\ Len(res.state.conversation_history) <= MaxUiHistory
              /\ state' = res.state
              /\ call' = UiCall("step", res.status = "raised", res.nodes,
                                <<>>, <<>>, <<st0>>, "loop")
              /\ pc' = IF res.status = "raised" THEN "cli_error"
                        ELSE IF Truthy(res.state.current_question)
                        THEN "cli_answer_prompt"
                        ELSE "cli_loop"
    /\ UNCHANGED <<settings, twin, input, output>>

\* the question is on display: a line is read and stripped; an empty one is
\* refused and asked for again, any other is given to process_answer
CliInput ==
    /\ pc = "cli_answer_prompt"
    /\ \E i \in 1..Len(TypedTexts) :
          LET answer == str_strip(TypedTexts[i])
              res == process_answer(state, answer)
          IN  IF Len(answer) = 0
              THEN /\ state' = state
                   /\ call' = UiCall("reject", FALSE, <<>>, <<>>, <<>>, <<>>,
                                     "none")
                   /\ pc' = pc
              ELSE /\ state' = res.state
                   /\ call' = UiCall("answer", res.raised, <<>>, <<state>>,
                                     <<answer>>, <<>>, "none")
                   /\ pc' = IF res.raised THEN "cli_error" ELSE "cli_loop"
    /\ UNCHANGED <<settings, twin, input, output>>

\* the loop test with is_complete true: the completion message is printed
CliExit ==
    /\ pc = "cli_loop"
    /\ state.is_complete
    /\ pc' = "cli_completed"
    /\ call' = UiCall("exit", FALSE, <<>>, <<>>, <<>>, <<>>, "none")
    /\ UNCHANGED <<settings, state, twin, input, output>>

\* app.py, show_interview_screen with no question set (lines 693-698): the
\* next question is fetched and the script is run again.  A session in which
\* a call raised is not followed further.  Calls are followed while the
\* transcript has at most MaxUiHistory entries.
WebRender ==
    /\ pc = "web_render"
    /\ ~state.is_complete
    /\ ~Truthy(state.current_question)
    /\ \E res \in run_step(state, Responses) :
          /\ Len(res.state.conversation_history) <= MaxUiHistory
          /\ state' = res.state
          /\ call' = UiCall("step", res.status = "raised", res.nodes,
                            <<>>, <<>>, <<state>>, "render")
          /\ pc' = IF res.status = "raised" THEN "web_error" ELSE "web_render"
    /\ UNCHANGED <<settings, twin, input, output>>

\* the submit handler (lines 748-777) with a question on display: a text
\* that is blank is refused; any other is given unstripped to
\* process_answer, and run_step follows in either branch of line 758
WebSubmit ==
    /\ pc = "web_render"
    /\ ~state.is_complete
    /\ Truthy(state.current_question)
    /\ \E i \in 1..Len(TypedTexts) :
          LET answer == TypedTexts[i]
              res == process_answer(state, answer)
              branch == IF AllRoundsDone(res.state) THEN "evaluation"
                        ELSE "next"
          IN  IF ~has_text(answer)
              THEN /\ state' = state
                   /\ call' = UiCall("reject", FALSE, <<>>, <<>>, <<>>, <<>>,
                                     "none")
                   /\ pc' = pc
              ELSE IF res.raised
              THEN /\ state' = res.state
                   /\ call' = UiCall("submit", TRUE, <<>>, <<state>>,
                                     <<answer>>, <<>>, "none")
                   /\ pc' = "web_error"
              ELSE \E res2 \in run_step(res.state, Responses) :
                      /\ Len(res2.state.conversation_history) <= MaxUiHistory
                      /\ state' = res2.state
                      /\ call' = UiCall("submit", res2.status = "raised",
                                        res2.nodes, <<state>>, <<answer>>,
                                        <<res.state>>, branch)
                      /\ pc' = IF res2.status = "raised" THEN "web_error"
                                ELSE "web_render"
    /\ UNCHANGED <<settings, twin, input, output>>

\* the results screen is shown in place of the interview
WebResults ==
    /\ pc = "web_render"
    /\ state.is_complete
    /\ pc' = "web_results"
    /\ call' = UiCall("exit", FALSE, <<>>, <<>>, <<>>, <<>>, "none")
    /\ UNCHANGED <<settings, state, twin, input, output>>

InitUi ==
    /\ settings \in [MAX_TECHNICAL_QUESTIONS : 0..MaxQuestions,
                     MAX_HR_QUESTIONS : 0..MaxQuestions,
                     MAX_MANAGER_QUESTIONS : 0..MaxQuestions]
    /\ state = create_initial_state("Ann", "Engineer", "Senior", None)
    /\ call = UiCall("init", FALSE, <<>>, <<>>, <<>>, <<>>, "none")
    /\ twin = state
    /\ input = None
    /\ output = None
    /\ \E i \in 1..2 : pc = <<"cli_loop", "web_render">>[i]

NextUi == CliStep \/ CliInput \/ CliExit \/ WebRender \/ WebSubmit \/ WebResults

SpecUi == InitUi /\ [][NextUi]_vars

(* ------------------------------- claims ------------------------------- *)

CounterSum(st) ==
    st.technical_questions_asked + st.hr_questions_asked
        + st.manager_questions_asked

\* technical=0, hr=1, manager=2, evaluation/complete=3
RoundIndex(agent) ==
    CASE agent = "technical" -> 0
      [] agent = "hr" -> 1
      [] agent = "manager" -> 2
      [] OTHER -> 3

CountersAtMaxima(st) ==
    /\ st.technical_questions_asked = settings.MAX_TECHNICAL_QUESTIONS
    /\ st.hr_questions_asked = settings.MAX_HR_QUESTIONS
    /\ st.manager_questions_asked = settings.MAX_MANAGER_QUESTIONS

IsUserEntry(m) == m.role = "user"
IsManagerEntry(m) == m.role = "agent" /\ m.agent_type = "manager"

\* C1: after any sequence of run_step and process_answer calls the length of
\* qa_pairs equals technical_questions_asked + hr_questions_asked +
\* manager_questions_asked.
C1_QaPairsMatchCounters ==
    Len(state.qa_pairs) = CounterSum(state)

\* an answer has just been recorded and qa_pairs holds a pair of each round
C1_Witness ==
    /\ call.op = "answer"
    /\ Len(state.qa_pairs) = 3
    /\ state.qa_pairs[1].agent_type = "technical"
    /\ state.qa_pairs[2].agent_type = "hr"
    /\ state.qa_pairs[3].agent_type = "manager"

\* C2 (as claimed): a run_step called while a question is pending, and that
\* returns normally, returns the state unchanged and has run no node (no
\* model call, no new transcript entry).
C2_StepIdempotentOnPending ==
    [][(/\ call'.op = "step"
        /\ ~call'.raised
        /\ Truthy(state.current_question)
        /\ ~state.is_complete)
          => (state' = state /\ call'.nodes = <<>>)]_vars

\* C3 (as claimed): with every round maximum at least 1, a run_step that
\* ends awaiting an answer has run exactly one persona node and appended
\* exactly one agent entry, the pending question tagged with the current
\* round.
C3_OneQuestionPerStep ==
    [][(/\ call'.op = "step"
        /\ ~call'.raised
        /\ ~state'.is_complete
        /\ settings.MAX_TECHNICAL_QUESTIONS >= 1
        /\ settings.MAX_HR_QUESTIONS >= 1
        /\ settings.MAX_MANAGER_QUESTIONS >= 1)
          => /\ Len(call'.nodes) = 1
             /\ state'.conversation_history =
                    Append(state.conversation_history,
                           Message("agent", state'.current_question,
                                   state'.current_agent))]_vars

\* C4: observed after each run_step or process_answer call, the round index
\* of current_agent (technical=0, hr=1, manager=2, evaluation=3) never
\* decreases.
C4_RoundIndexNeverDecreases ==
    [][RoundIndex(state'.current_agent) >= RoundIndex(state.current_agent)]_vars

\* a run_step made in the manager round, with an earlier manager question in
\* the transcript, went through the technical and hr nodes and ended in the
\* manager round again
C4_Witness ==
    /\ call.op = "step"
    /\ ~call.raised
    /\ call.nodes = <<"technical", "hr", "manager">>
    /\ state.current_agent = "manager"
    /\ Len(SelectSeq(state.conversation_history, IsManagerEntry)) >= 2

\* C5: whenever an hr question is pending the technical counter equals its
\* maximum; whenever a manager question is pending the technical and hr
\* counters equal their maxima; is_complete holds only with all three
\* counters equal to their maxima.
C5_NoRoundSkipped ==
    /\ (state.current_question # None /\ state.current_agent = "hr")
          => state.technical_questions_asked = settings.MAX_TECHNICAL_QUESTIONS
    /\ (state.current_question # None /\ state.current_agent = "manager")
          => /\ state.technical_questions_asked
                   = settings.MAX_TECHNICAL_QUESTIONS
             /\ state.hr_questions_asked = settings.MAX_HR_QUESTIONS
    /\ state.is_complete => CountersAtMaxima(state)

\* the evaluation has run after an answered technical question and an
\* answered hr question
C5_Witness ==
    /\ state.is_complete
    /\ state.evaluation # NoEvaluation
    /\ state.technical_questions_asked = 1
    /\ state.hr_questions_asked = 1

\* C6 (as claimed): in every state with is_complete true, evaluation is set
\* and current_agent is "complete".
C6_CompleteMeansAgentComplete ==
    state.is_complete
        => (state.evaluation # NoEvaluation /\ state.current_agent = "complete")

\* C7 (as claimed): current_question is set by a run_step that asked a
\* question, cleared by process_answer, and holds no question once the
\* evaluation step has completed the interview.
C7_QuestionSetIffAwaiting ==
    /\ (call.op = "step" /\ ~call.raised /\ ~state.is_complete)
          => state.current_question # None
    /\ (call.op = "answer" /\ ~call.raised) => state.current_question = None
    /\ state.is_complete => ~Truthy(state.current_question)

\* C8: each counter is at most its configured maximum.
C8_CountersWithinMaxima ==
    /\ state.technical_questions_asked <= settings.MAX_TECHNICAL_QUESTIONS
    /\ state.hr_questions_asked <= settings.MAX_HR_QUESTIONS
    /\ state.manager_questions_asked <= settings.MAX_MANAGER_QUESTIONS

\* a second answer was submitted in the technical round with the technical
\* counter already at its maximum
C8_Witness ==
    /\ call.op = "answer"
    /\ settings.MAX_TECHNICAL_QUESTIONS = 1
    /\ state.technical_questions_asked = 1
    /\ state.current_agent = "technical"
    /\ Len(SelectSeq(state.conversation_history, IsUserEntry)) >= 2

\* C9 (as claimed): process_answer called while a question is pending
\* appends one candidate entry with the text, appends the pair {pending
\* question, text, current_agent}, adds one to the counters and clears
\* current_question.
C9_AnswerRecordsPair ==
    [][(call'.op = "answer" /\ Truthy(state.current_question))
          => /\ state'.conversation_history =
                    Append(state.conversation_history,
                           Message("user", state'.last_answer, None))
             /\ state'.qa_pairs =
                    Append(state.qa_pairs,
                           QuestionAnswer(state.current_question,
                                          state'.last_answer,
                                          state.current_agent))
             /\ CounterSum(state') = CounterSum(state) + 1
             /\ state'.current_question = None]_vars

\* C10 (as claimed): once evaluation is stored, no later call replaces it.
C10_EvaluationSetOnce ==
    [][state.evaluation # NoEvaluation => state'.evaluation = state.evaluation]_vars

\* C11: is_complete is true only in states whose evaluation is set, and it
\* becomes true only in a run_step whose last node is the evaluation node:
\* never in a run that ended at a persona node, never in process_answer.
C11_CompleteOnlyByEvaluation ==
    /\ [](state.is_complete => state.evaluation # NoEvaluation)
    /\ [][(~state.is_complete /\ state'.is_complete)
            => /\ call'.op = "step"
               /\ ~call'.raised
               /\ call'.nodes # <<>>
               /\ call'.nodes[Len(call'.nodes)] = "evaluation"]_vars

\* the evaluation node has just completed an interview with recorded answers
C11_Witness ==
    /\ call.op = "step"
    /\ call.nodes # <<>>
    /\ call.nodes[Len(call.nodes)] = "evaluation"
    /\ state.is_complete
    /\ state.evaluation # NoEvaluation
    /\ Len(state.qa_pairs) >= 1

\* the tag the i-th answered question carries when the rounds are gone
\* through in order: technical, then hr, then manager
ExpectedTag(i) ==
    IF i <= settings.MAX_TECHNICAL_QUESTIONS THEN "technical"
    ELSE IF i <= settings.MAX_TECHNICAL_QUESTIONS + settings.MAX_HR_QUESTIONS
    THEN "hr"
    ELSE "manager"

\* the interview has ended as the scenario describes
InterviewDone(st) ==
    /\ st.is_complete
    /\ st.evaluation # NoEvaluation
    /\ CountersAtMaxima(st)
    /\ Len(st.qa_pairs) = settings.MAX_TECHNICAL_QUESTIONS
                             + settings.MAX_HR_QUESTIONS
                             + settings.MAX_MANAGER_QUESTIONS
    /\ \A i \in 1..Len(st.qa_pairs) : st.qa_pairs[i].agent_type = ExpectedTag(i)

\* C12: with maxima T, H, M >= 0, a driver that alternates run_step and
\* process_answer and a model that always returns non-empty text, the
\* interview terminates: a run_step ending in the evaluation node makes
\* is_complete true with exactly T+H+M answered questions, T tagged
\* technical, then H tagged hr, then M tagged manager, and the counters at
\* {T,H,M}.
C12_InterviewTerminates ==
    <>(/\ InterviewDone(state)
       /\ call.op = "step"
       /\ ~call.raised
       /\ call.nodes # <<>>
       /\ call.nodes[Len(call.nodes)] = "evaluation")

\* a driven interview with one question in each round has ended
C12_Witness ==
    /\ InterviewDone(state)
    /\ call.op = "step"
    /\ Len(state.qa_pairs) = 3
    /\ state.qa_pairs[1].answer # state.qa_pairs[2].answer

\* C13 (as claimed): a run_step in which a model call raises, called with no
\* question pending, leaves the caller's state as it was before the call:
\* current_agent, counters, conversation_history, qa_pairs and
\* current_question.
C13_FailedStepLeavesState ==
    [][(/\ call'.op = "step"
        /\ call'.raised
        /\ ~Truthy(state.current_question))
          => /\ state'.current_agent = state.current_agent
             /\ state'.technical_questions_asked
                   = state.technical_questions_asked
             /\ state'.hr_questions_asked = state.hr_questions_asked
             /\ state'.manager_questions_asked = state.manager_questions_asked
             /\ state'.conversation_history = state.conversation_history
             /\ state'.qa_pairs = state.qa_pairs
             /\ state'.current_question = state.current_question]_vars

\* what routing decides and is decided by: the round, the counters and the
\* completion flag
Routing(st) ==
    <<st.current_agent, st.technical_questions_asked, st.hr_questions_asked,
      st.manager_questions_asked, st.is_complete>>

\* C14: two interviews with the same maxima and the same sequence of
\* run_step / process_answer calls, differing only in the answer texts, have
\* the same current_agent, counters and is_complete after every call.
C14_RoutingIgnoresAnswers ==
    Routing(state) = Routing(twin)

\* both interviews completed after two answered questions, with different
\* answers recorded
C14_Witness ==
    /\ state.is_complete
    /\ twin.is_complete
    /\ Len(state.qa_pairs) = 2
    /\ Len(twin.qa_pairs) = 2
    /\ state.qa_pairs[1].answer # twin.qa_pairs[1].answer
    /\ state.qa_pairs[2].answer # twin.qa_pairs[2].answer

\* the lines of the text that contain "SCORE:" (in any case) and a digit
ScoreLines(evaluation_text) ==
    SelectSeq(str_split(evaluation_text),
              LAMBDA l : /\ contains(str_upper(l), kwScore)
                         /\ \E i \in 1..Len(l) : IsDigit(l[i]))

\* C15: for every response text the parsed score is an integer in [0,100],
\* and it is 0 when no line contains "SCORE:" together with an integer.
C15_ScoreInRange ==
    output # <<>>
        => /\ output[1].score \in 0..100
           /\ Len(ScoreLines(input)) = 0 => output[1].score = 0

\* a response with a score line above the range has been parsed
C15_Witness ==
    /\ output # <<>>
    /\ Len(ScoreLines(input)) = 1
    /\ to_int(re_search(ScoreLines(input)[1])) > 100
    /\ output[1].score = 100

\* the lines of the text that contain "SCORE:" (in any case)
ScoreHeaderLines(evaluation_text) ==
    SelectSeq(str_split(evaluation_text),
              LAMBDA l : contains(str_upper(l), kwScore))

\* what follows the first "SCORE:" of a line, leading spaces dropped
AfterScore(line) ==
    LET up == str_upper(line)
        at == CHOOSE i \in 0..(Len(up) - Len(kwScore)) :
                 /\ SubSeq(up, i + 1, i + Len(kwScore)) = kwScore
                 /\ \A j \in 0..(i - 1) :
                       SubSeq(up, j + 1, j + Len(kwScore)) # kwScore
    IN  lstrip_space(SubSeq(line, at + Len(kwScore) + 1, Len(line)))

\* a decimal integer with an optional minus sign starts the text
StartsWithInteger(s) ==
    \/ Len(s) >= 1 /\ IsDigit(s[1])
    \/ Len(s) >= 2 /\ s[1] = "-" /\ IsDigit(s[2])

\* the value of that integer
SignedInteger(s) ==
    IF s[1] = "-" THEN 0 - to_int(take_digits(Tail(s)))
    ELSE to_int(take_digits(s))

\* C16 (as claimed): for a response with one "SCORE:" line that has an
\* integer after "SCORE:", the parsed score is that integer clamped to
\* [0,100]: 100 for an integer above 100, 0 for a negative integer.
C16_ScoreClampedBothEnds ==
    (/\ output # <<>>
     /\ Len(ScoreHeaderLines(input)) = 1
     /\ StartsWithInteger(AfterScore(ScoreHeaderLines(input)[1])))
        => LET n == SignedInteger(AfterScore(ScoreHeaderLines(input)[1]))
           IN  output[1].score = IF n > 100 THEN 100 ELSE IF n < 0 THEN 0 ELSE n

\* the markers a bulleted line starts with
BulletMarkers == <<"-", "*", BULLET>>

IsBulletedLine(l) ==
    LET line == str_strip(l)
    IN  Len(line) > 0 /\ InChars(line[1], BulletMarkers)

\* a "SCORE: n" line with 0 <= n <= 100
IsScoreLineInRange(l) ==
    /\ contains(str_upper(l), kwScore)
    /\ StartsWithInteger(AfterScore(l))
    /\ SignedInteger(AfterScore(l)) \in 0..100

\* the lines of a text other than its "SCORE:" lines
NonScoreLines(evaluation_text) ==
    SelectSeq(str_split(evaluation_text),
              LAMBDA l : ~contains(str_upper(l), kwScore))

\* a "STRENGTHS:" header followed by bulleted lines, and one "SCORE: n"
\* line before or after that section
IsStrengthsResponse(evaluation_text) ==
    LET lines == str_split(evaluation_text)
        section == NonScoreLines(evaluation_text)
    IN  /\ Len(lines) = Len(section) + 1
        /\ \/ IsScoreLineInRange(lines[1])
           \/ IsScoreLineInRange(lines[Len(lines)])
        /\ Len(section) >= 2
        /\ section[1] = kwStrengths
        /\ \A i \in 2..Len(section) : IsBulletedLine(section[i])

\* C17 (as claimed): for a response made of a "STRENGTHS:" header followed
\* by bulleted lines and a "SCORE: n" line with 0 <= n <= 100 before or after
\* the section, the parsed score is n and strengths are exactly the bulleted
\* lines, in order, each without its bullet marker and surrounding
\* whitespace.
C17_StrengthsAndScoreParsed ==
    (output # <<>> /\ IsStrengthsResponse(input))
        => LET section == NonScoreLines(input)
           IN  /\ output[1].score
                     = SignedInteger(AfterScore(ScoreHeaderLines(input)[1]))
               /\ output[1].strengths
                     = [i \in 1..(Len(section) - 1) |->
                           str_strip(Tail(str_strip(section[i + 1])))]

\* both lists the fallback looks at are empty
NothingParsed(evaluation) ==
    Len(evaluation.strengths) = 0 /\ Len(evaluation.weaknesses) = 0

HeaderAt(prompt) ==
    IF \E i \in 1..Len(prompt) : prompt[i] = ResumeHeader
    THEN CHOOSE i \in 1..Len(prompt) : prompt[i] = ResumeHeader
    ELSE 0

\* C19: when a resume is present, the prompt holds, right after the resume
\* header, exactly the first min(2000, length) characters of the resume and
\* no other resume character, and the continuation marker follows them if
\* and only if the resume is longer than 2000 characters.
C19_ResumeTruncated ==
    (/\ output # <<>>
     /\ Len(input.resume_text) = 1
     /\ Len(input.resume_text[1]) > 0)
        => LET resume == input.resume_text[1]
               prompt == output[1]
               h == HeaderAt(prompt)
               k == IF Len(resume) < 2000 THEN Len(resume) ELSE 2000
               marked == Len(resume) > 2000
           IN  /\ h > 0
               /\ SubSeq(prompt, h + 1, h + k) = SubSeq(resume, 1, k)
               /\ prompt[h + k + 1] = "\n"
               /\ marked <=> prompt[h + k + 2] = ResumeContinues
               /\ Len(prompt) = h + k + 2 + (IF marked THEN 1 ELSE 0)
               /\ prompt[Len(prompt)] = ResumeTrailer

\* a prompt has been built from a resume of 5000 characters
C19_Witness ==
    /\ output # <<>>
    /\ Len(input.resume_text) = 1
    /\ Len(input.resume_text[1]) = 5000
    /\ \E i \in 1..Len(output[1]) : output[1][i] = ResumeContinues

\* s is a prefix of t
IsPrefix(s, t) == Len(s) <= Len(t) /\ SubSeq(t, 1, Len(s)) = s

\* C20: every run_step or process_answer call leaves the previous
\* conversation_history and the previous qa_pairs as prefixes of the new
\* ones, and qa_pairs grows by exactly one element in a process_answer that
\* answers a pending question and by none in any other call.
C20_AppendOnly ==
    [][/\ IsPrefix(state.conversation_history, state'.conversation_history)
       /\ IsPrefix(state.qa_pairs, state'.qa_pairs)
       /\ Len(state'.qa_pairs)
             = Len(state.qa_pairs)
                 + (IF /\ call'.op = "answer"
                       /\ ~call'.raised
                       /\ Truthy(state.current_question)
                    THEN 1 ELSE 0)]_vars

\* a second question has just been answered, after a run_step that appended
\* two questions
C20_Witness ==
    /\ call.op = "answer"
    /\ ~call.raised
    /\ Len(state.qa_pairs) = 2
    /\ state.qa_pairs[2].agent_type = "hr"
    /\ Len(state.conversation_history) >= 5

\* C21: neither presentation layer gives process_answer an empty or
\* whitespace-only text, and a refused input leaves the interview state
\* unchanged.
C21_NoBlankAnswer ==
    [][/\ call'.passed # <<>> => Len(str_strip(call'.passed[1])) > 0
       /\ call'.op = "reject" => state' = state]_vars

\* the web handler has recorded an answer typed with blanks around it
C21_Witness ==
    /\ call.op = "submit"
    /\ call.passed # <<>>
    /\ call.passed[1] # str_strip(call.passed[1])
    /\ Len(state.qa_pairs) >= 1
    /\ state.qa_pairs[Len(state.qa_pairs)].answer = call.passed[1]

\* C22 (as claimed): in the command-line loop, once the evaluation step has
\* returned no answer is asked for and the loop goes on to the completion
\* message, and process_answer is never called with current_agent
\* "evaluation".
C22_CliExitsAfterEvaluation ==
    /\ state.is_complete => pc # "cli_answer_prompt"
    /\ (pc = "cli_error" /\ call.answered # <<>>)
          => call.answered[1].current_agent # "evaluation"

\* the entries a call appended to the transcript
Appended(old, new) ==
    SubSeq(new.conversation_history, Len(old.conversation_history) + 1,
           Len(new.conversation_history))

\* the counter and the maximum of a persona node's round
AskedOf(node, st) ==
    CASE node = "technical" -> st.technical_questions_asked
      [] node = "hr" -> st.hr_questions_asked
      [] node = "manager" -> st.manager_questions_asked

MaximumOf(node) ==
    CASE node = "technical" -> settings.MAX_TECHNICAL_QUESTIONS
      [] node = "hr" -> settings.MAX_HR_QUESTIONS
      [] node = "manager" -> settings.MAX_MANAGER_QUESTIONS

\* C23 (as claimed): no run_step runs the same persona node twice in a row,
\* whatever the model returns: the "continue" route is never taken.
C23_ContinueNeverTaken ==
    call.op = "step"
        => \A k \in 1..(Len(call.nodes) - 1) : call.nodes[k] # call.nodes[k + 1]

\* C23 (amended): within a run_step a persona node is followed by itself
\* (the "continue" route) exactly when the text it got from the model is
\* empty and its round's counter is below its maximum; a node that got a
\* non-empty text is followed by the next round's node or by END.
C23_ContinueOnlyOnEmptyText ==
    [][call'.op = "step"
         => \A k \in 1..(Len(call'.nodes) - 1) :
               (call'.nodes[k] = call'.nodes[k + 1])
                  <=> /\ ~Truthy(Appended(state, state')[k].content)
                      /\ AskedOf(call'.nodes[k], state)
                            < MaximumOf(call'.nodes[k])]_vars

\* a run_step ran the technical node twice: the first text was empty, the
\* second is the pending question
C23_Witness ==
    /\ call.op = "step"
    /\ ~call.raised
    /\ call.nodes = <<"technical", "technical">>
    /\ state.current_question = "Q1"
    /\ state.conversation_history[Len(state.conversation_history) - 1].content
          = ""

\* the number of agent-authored entries of the transcript
AgentEntries(st) ==
    Cardinality({i \in DOMAIN st.conversation_history :
                    ~IsUserEntry(st.conversation_history[i])})

\* C24: when step and answer alternate, the number of agent-authored
\* transcript entries is the number of qa_pairs, plus one while a question is
\* pending: every agent entry is a recorded or the pending question.
C24_AgentEntriesAreQuestions ==
    AgentEntries(state)
        = Len(state.qa_pairs) + (IF state.current_question # None THEN 1 ELSE 0)

\* the candidate's data, given at construction
Metadata(st) ==
    <<st.candidate_name, st.job_role, st.experience_level, st.resume_text>>

Counters(st) ==
    <<st.technical_questions_asked, st.hr_questions_asked,
      st.manager_questions_asked>>

\* C25: run_step leaves the three counters, qa_pairs and the candidate's
\* data as they were; process_answer leaves current_agent, is_complete,
\* evaluation, the candidate's data and the counters of the rounds other than
\* current_agent's as they were, and runs no node (no model call).
C25_FrameConditions ==
    [][/\ call'.op = "step"
            => /\ Counters(state') = Counters(state)
               /\ state'.qa_pairs = state.qa_pairs
               /\ Metadata(state') = Metadata(state)
       /\ call'.op = "answer"
            => /\ state'.current_agent = state.current_agent
               /\ state'.is_complete = state.is_complete
               /\ state'.evaluation = state.evaluation
               /\ Metadata(state') = Metadata(state)
               /\ \A i \in 1..3 :
                     RoundIndex(state.current_agent) # i - 1
                        => Counters(state')[i] = Counters(state)[i]
               /\ call'.nodes = <<>>]_vars

\* two rounds have been asked and answered: steps ran with non-zero counters
\* and qa_pairs, answers ran in two different rounds
C25_Witness ==
    /\ call.op = "answer"
    /\ ~call.raised
    /\ Len(state.qa_pairs) = 2
    /\ state.qa_pairs[1].agent_type = "technical"
    /\ state.qa_pairs[2].agent_type = "hr"
    /\ Counters(state) = <<1, 1, 0>>

\* the positions of the agent-authored entries of the transcript
AgentPositions(st) ==
    {i \in DOMAIN st.conversation_history :
        ~IsUserEntry(st.conversation_history[i])}

\* C26: while current_question is set it is the text of the last
\* agent-authored transcript entry, and current_agent is that entry's round.
C26_QuestionIsLastAgentEntry ==
    state.current_question # None
        => \E i \in AgentPositions(state) :
              /\ \A j \in AgentPositions(state) : j <= i
              /\ state.conversation_history[i].content = state.current_question
              /\ state.conversation_history[i].agent_type = state.current_agent

\* the run_step calls of show_interview_screen
WebBranches == <<"render", "evaluation", "next">>

\* C27: show_interview_screen calls run_step only with current_question None
\* and is_complete false, calls process_answer only with a question pending
\* and is_complete false, and the run_step of the branch taken when the
\* three counters are at their maxima returns with is_complete true.
C27_WebDriverCalls ==
    /\ \A b \in 1..Len(WebBranches) :
          (call.branch = WebBranches[b] /\ call.stepped # <<>>)
             => /\ call.stepped[1].current_question = None
                /\ ~call.stepped[1].is_complete
    /\ (call.op = "submit" /\ call.answered # <<>>)
          => /\ call.answered[1].current_question # None
             /\ ~call.answered[1].is_complete
    /\ (call.branch = "evaluation" /\ ~call.raised) => state.is_complete

\* the last answer of a full interview was submitted and the run_step of the
\* evaluation branch returned
C27_Witness ==
    /\ call.op = "submit"
    /\ call.branch = "evaluation"
    /\ ~call.raised
    /\ Len(state.qa_pairs) = 3
    /\ state.is_complete
    /\ state.evaluation # NoEvaluation

\* C28: process_answer called with current_question None records no
\* question-answer pair and changes no counter: it appends one
\* candidate-authored entry to the transcript, sets last_answer to the text,
\* and nothing else.
C28_AnswerWithoutQuestion ==
    [][(call'.op = "answer" /\ state.current_question = None)
          => /\ ~call'.raised
             /\ state'.last_answer # None
             /\ state' = [state EXCEPT
                             !.conversation_history =
                                 Append(@, Message("user", state'.last_answer,
                                                   None)),
                             !.last_answer = state'.last_answer]]_vars

\* a second answer was given with no question asked since the first
C28_Witness ==
    /\ call.op = "answer"
    /\ ~call.raised
    /\ state.current_question = None
    /\ Len(state.qa_pairs) = 1
    /\ CounterSum(state) = 1
    /\ Len(state.conversation_history) >= 3
    /\ LET n == Len(state.conversation_history)
       IN  /\ IsUserEntry(state.conversation_history[n])
           /\ IsUserEntry(state.conversation_history[n - 1])
           /\ state.conversation_history[n].content = state.last_answer

\* C29: once is_complete is true it stays true, and no later run_step or
\* process_answer changes a counter or qa_pairs.
C29_CompleteIsFinal ==
    [][state.is_complete
          => /\ state'.is_complete
             /\ Counters(state') = Counters(state)
             /\ state'.qa_pairs = state.qa_pairs]_vars

\* an answer was given after the evaluation of a two-question interview
C29_Witness ==
    /\ state.is_complete
    /\ call.op = "answer"
    /\ Len(state.qa_pairs) = 2
    /\ CounterSum(state) = 2
    /\ IsUserEntry(state.conversation_history[Len(state.conversation_history)])
    /\ ~IsUserEntry(state.conversation_history[
                        Len(state.conversation_history) - 1])

\* the section a header line opens, None for a line that is no header
HeaderSection(l) ==
    LET up == str_upper(l)
    IN  IF contains(up, kwStrengths) THEN "strengths"
        ELSE IF contains(up, kwWeaknesses) \/ contains(up, kwAreasForImprovement)
        THEN "weaknesses"
        ELSE IF contains(up, kwSuggestions) \/ contains(up, kwRecommendations)
        THEN "suggestions"
        ELSE IF contains(up, kwOverallFeedback) \/ contains(up, kwSummary)
        THEN "overall_feedback"
        ELSE None

\* a line without its leading bullet markers and surrounding blanks
WithoutBullets(l) == str_strip(str_lstrip(str_strip(l), BulletMarkers))

\* the content lines that follow a header of `section`, up to the next
\* header, in order; `current` is the section open at the first line
RECURSIVE SectionLines(_, _, _)
SectionLines(lines, section, current) ==
    IF Len(lines) = 0
    THEN <<>>
    ELSE LET l == Head(lines)
             rest == Tail(lines)
         IN  IF contains(str_upper(l), kwScore)
             THEN SectionLines(rest, section, current)
             ELSE IF HeaderSection(l) # None
             THEN SectionLines(rest, section, HeaderSection(l))
             ELSE IF Len(str_strip(l)) > 0 /\ current = section
             THEN <<WithoutBullets(l)>> \o SectionLines(rest, section, current)
             ELSE SectionLines(rest, section, current)

\* the texts of a sequence, each followed by one space
RECURSIVE SpaceTerminated(_)
SpaceTerminated(texts) ==
    IF Len(texts) = 0
    THEN <<>>
    ELSE Head(texts) \o <<" ">> \o SpaceTerminated(Tail(texts))

\* C30: each of strengths, weaknesses and suggestions is the sequence of the
\* non-empty lines, other than score lines and headers, that follow a header
\* of that section up to the next header, in order and without their leading
\* bullet markers; overall_feedback (when the fallback does not replace it) is
\* the concatenation of such lines, each followed by a space; lines before the
\* first header are in no section.
C30_SectionsCollected ==
    output # <<>>
        => LET lines == str_split(input)
           IN  /\ output[1].strengths = SectionLines(lines, "strengths", None)
               /\ output[1].weaknesses
                     = SectionLines(lines, "weaknesses", None)
               /\ output[1].suggestions
                     = SectionLines(lines, "suggestions", None)
               /\ ~NothingParsed(output[1])
                     => output[1].overall_feedback
                          = SpaceTerminated(
                                SectionLines(lines, "overall_feedback", None))

\* the two templates of a persona
FirstTemplates ==
    <<"TECHNICAL_AGENT_FIRST_QUESTION_PROMPT", "HR_AGENT_FIRST_QUESTION_PROMPT",
      "MANAGER_AGENT_FIRST_QUESTION_PROMPT">>

FollowUpTemplates ==
    <<"TECHNICAL_AGENT_SYSTEM_PROMPT", "HR_AGENT_SYSTEM_PROMPT",
      "MANAGER_AGENT_SYSTEM_PROMPT">>

\* C31: the prompt of a persona agent is made from its first-question
\* template exactly when the counter of its own round is 0 when it is asked,
\* and from its follow-up template otherwise.
C31_FirstTemplateAtZero ==
    output # <<>>
        => \A a \in 1..Len(PersonaTypes) :
              input.agent_type = PersonaTypes[a]
                 => LET own == AskedOf(PersonaTypes[a], input.state)
                    IN  /\ (output[1][1] = FirstTemplates[a]) <=> (own = 0)
                        /\ (output[1][1] = FollowUpTemplates[a]) <=> (own # 0)

\* the hr agent was asked with its own counter at 0 and the other counters
\* above 0, and used its first-question template
C31_Witness ==
    /\ output # <<>>
    /\ input.agent_type = "hr"
    /\ input.state.hr_questions_asked = 0
    /\ input.state.technical_questions_asked = 1
    /\ input.state.manager_questions_asked = 1
    /\ output[1][1] = "HR_AGENT_FIRST_QUESTION_PROMPT"

\* the labels of the rounds in the summary, in the order of PersonaTypes
RoundLabels ==
    <<"=== TECHNICAL ROUND ===", "=== HR ROUND ===", "=== MANAGERIAL ROUND ===">>

\* a text without its line breaks
Visible(text) == SelectSeq(text, LAMBDA piece : piece # "\n")

\* the answer as the summary shows it
ShownAnswer(qa) ==
    IF qa.answer = "" \/ qa.answer = None THEN "No answer provided"
    ELSE qa.answer

\* what the summary shows of round a: nothing when the round has no pair,
\* else its label and its pairs in their order in qa_pairs, numbered from 1
RECURSIVE ShownPairs(_, _)
ShownPairs(pairs, i) ==
    IF i > Len(pairs)
    THEN <<>>
    ELSE <<"Q", ToString(i), ": ", pairs[i].question,
           "A", ToString(i), ": ", ShownAnswer(pairs[i])>>
           \o ShownPairs(pairs, i + 1)

ShownRound(qa_pairs, a) ==
    LET pairs == SelectSeq(qa_pairs, LAMBDA qa : qa.agent_type = PersonaTypes[a])
    IN  IF Len(pairs) = 0 THEN <<>>
        ELSE <<RoundLabels[a]>> \o ShownPairs(pairs, 1)

\* C32: the summary given to the evaluation prompt shows the rounds in the
\* order Technical, HR, Managerial, each with its pairs in their original
\* relative order numbered from 1, shows no label for a round without pairs,
\* and is "No interview data available." when there is no pair at all; the
\* prompt is built in every case.
C32_SummaryGroupedByRound ==
    output # <<>>
        => LET summary == Tail(output[1])
           IN  /\ output[1][1] = "EVALUATION_AGENT_SYSTEM_PROMPT"
               /\ Len(input.qa_pairs) = 0
                     => summary = <<"No interview data available.">>
               /\ Len(input.qa_pairs) > 0
                     => Visible(summary)
                          = ShownRound(input.qa_pairs, 1)
                              \o ShownRound(input.qa_pairs, 2)
                              \o ShownRound(input.qa_pairs, 3)

\* a summary was built from pairs given out of the order of the rounds, with
\* two pairs of one round and none of the technical round
C32_Witness ==
    /\ output # <<>>
    /\ Len(input.qa_pairs) = 3
    /\ input.qa_pairs[1].agent_type = "manager"
    /\ input.qa_pairs[2] = QuestionAnswer("Q2", "A1", "hr")
    /\ input.qa_pairs[3] = QuestionAnswer("Q1", "A1", "hr")
    /\ Visible(Tail(output[1]))[1] = "=== HR ROUND ==="

\* the label of a transcript entry in a prompt
SpeakerOf(msg) == IF msg.role = "agent" THEN "Interviewer" ELSE "Candidate"

\* text is the rendering of the last min(5, n) of the n entries of messages,
\* one line for each in their order, or the fixed sentence when n = 0
IsHistoryOf(text, messages) ==
    LET n == Len(messages)
        k == IF n < 5 THEN n ELSE 5
    IN  IF n = 0
        THEN text = <<"No previous conversation.">>
        ELSE /\ Len(text) = 4 * k - 1
             /\ \A j \in 1..k :
                   /\ text[4 * j - 3] = SpeakerOf(messages[n - k + j])
                   /\ text[4 * j - 2] = ": "
                   /\ text[4 * j - 1] = messages[n - k + j].content
                   /\ j < k => text[4 * j] = "\n"

\* C33: the conversation history in a persona's prompt is the last min(5, n)
\* of the n transcript entries in their original order, each as
\* "Interviewer: <text>" for an agent entry and "Candidate: <text>" for a
\* candidate entry, and "No previous conversation." for an empty transcript.
C33_HistoryWindow ==
    (/\ output # <<>>
     /\ \E a \in 1..Len(FollowUpTemplates) :
           output[1][1] = FollowUpTemplates[a])
        => IsHistoryOf(Tail(output[1]), input.state.conversation_history)

\* the hr agent built a follow-up prompt from a transcript of six entries of
\* which the first, a candidate's, is the one left out
C33_Witness ==
    /\ output # <<>>
    /\ input.agent_type = "hr"
    /\ output[1][1] = "HR_AGENT_SYSTEM_PROMPT"
    /\ Len(input.state.conversation_history) = 6
    /\ IsUserEntry(input.state.conversation_history[1])
    /\ \A i \in 2..6 : ~IsUserEntry(input.state.conversation_history[i])
    /\ \A i \in 1..Len(output[1]) : output[1][i] # "Candidate"

====
